---- MODULE Spec2Model ----
(***************************************************************************)
(* TranscriptInsightExtractor (src/tran/extract_insights_clean.py) as a    *)
(* state machine: the process reads a transcript (conversation + roster),  *)
(* segments it into topics one message at a time, generates one insight    *)
(* per qualifying (topic, speaker) pair, analyses sentiment, diarizes, and *)
(* compiles the report.  Texts are Python strings and are modelled as TLA+ *)
(* strings, character by character; scores are exact rationals scaled to   *)
(* integers.                                                               *)
(***************************************************************************)
EXTENDS Integers, Sequences, FiniteSets, TLC

(***************************************************************************)
(* Python str primitives                                                   *)
(***************************************************************************)

\* The printable ASCII characters in code-point order, in three runs: codes 32..33,
\* 35..91 and 97..126 (the characters between the runs do not occur in the modelled
\* texts).
AsciiLow == " !"
AsciiMid == "#$%&'()*+,-./0123456789:;<=>?@ABCDEFGHIJKLMNOPQRSTUVWXYZ["
AsciiHigh == "abcdefghijklmnopqrstuvwxyz{|}~"

CharAt(s, k) == SubSeq(s, k, k)

OrdTable ==
  [c \in {CharAt(AsciiLow, k) : k \in 1..Len(AsciiLow)} |->
       31 + (CHOOSE k \in 1..Len(AsciiLow) : CharAt(AsciiLow, k) = c)]
  @@ [c \in {CharAt(AsciiMid, k) : k \in 1..Len(AsciiMid)} |->
       34 + (CHOOSE k \in 1..Len(AsciiMid) : CharAt(AsciiMid, k) = c)]
  @@ [c \in {CharAt(AsciiHigh, k) : k \in 1..Len(AsciiHigh)} |->
       96 + (CHOOSE k \in 1..Len(AsciiHigh) : CharAt(AsciiHigh, k) = c)]

\* ord(c) for a one-character string
Ord(c) == OrdTable[c]

\* chr(n)
Chr(n) == IF n <= 91 THEN CharAt(AsciiMid, n - 34) ELSE CharAt(AsciiHigh, n - 96)

IsUpper(c) == Ord(c) \in 65..90
IsLower(c) == Ord(c) \in 97..122
IsAlpha(c) == IsUpper(c) \/ IsLower(c)
IsDigit(c) == Ord(c) \in 48..57
\* the regex class \w over the characters above: letters and digits
IsWordChar(c) == IsAlpha(c) \/ IsDigit(c)
\* str.split() separators that can occur in a message
IsSpace(c) == c = " "

LowerChar(c) == IF IsUpper(c) THEN Chr(Ord(c) + 32) ELSE c
UpperChar(c) == IF IsLower(c) THEN Chr(Ord(c) - 32) ELSE c

RECURSIVE LowerRun(_)
\* s.lower(), character by character
LowerRun(s) == IF s = "" THEN "" ELSE LowerChar(Head(s)) \o LowerRun(Tail(s))

RECURSIVE str_lower(_)
\* s.lower(), taken 16 characters at a time
str_lower(s) ==
  IF Len(s) <= 16 THEN LowerRun(s)
  ELSE LowerRun(SubSeq(s, 1, 16)) \o str_lower(SubSeq(s, 17, Len(s)))

\* "k in s" for strings: substring containment
Contains(s, k) ==
  \E p \in 1..(Len(s) - Len(k) + 1) : SubSeq(s, p, p + Len(k) - 1) = k

\* any(w in s for w in words)
ContainsAny(s, words) == \E n \in 1..Len(words) : Contains(s, words[n])

\* sum(1 for w in words if w in s)
CountContained(s, words) == Cardinality({n \in 1..Len(words) : Contains(s, words[n])})

\* s[:n]
Truncate(s, n) == IF Len(s) <= n THEN s ELSE SubSeq(s, 1, n)

\* a < b and a <= b on Python strings: lexicographic by code point
StrLess(a, b) ==
  \/ \E p \in 1..Len(b) :
        /\ p <= Len(a)
        /\ SubSeq(a, 1, p - 1) = SubSeq(b, 1, p - 1)
        /\ Ord(CharAt(a, p)) < Ord(CharAt(b, p))
  \/ Len(a) < Len(b) /\ SubSeq(b, 1, Len(a)) = a
StrLeq(a, b) == a = b \/ StrLess(a, b)

RECURSIVE Join(_, _)
\* sep.join(parts)
Join(sep, parts) ==
  IF Len(parts) = 0 THEN ""
  ELSE IF Len(parts) = 1 THEN parts[1]
  ELSE parts[1] \o sep \o Join(sep, Tail(parts))

RECURSIVE SumSeq(_)
SumSeq(q) == IF Len(q) = 0 THEN 0 ELSE q[1] + SumSeq(Tail(q))

Max(a, b) == IF a >= b THEN a ELSE b
Min(a, b) == IF a <= b THEN a ELSE b
Abs(a) == IF a < 0 THEN -a ELSE a
SetMax(S) == CHOOSE a \in S : \A b \in S : a >= b
SetMin(S) == CHOOSE a \in S : \A b \in S : a <= b

\* len(s.split()): the number of maximal runs of non-space characters
WordCount(s) ==
  Cardinality({p \in 1..Len(s) :
      /\ ~IsSpace(CharAt(s, p))
      /\ (p = 1 \/ IsSpace(CharAt(s, p - 1)))})

(***************************************************************************)
(* Keyword taxonomies (TranscriptInsightExtractor.__init__)                *)
(***************************************************************************)

\* self.technical_keywords, in dict order
technical_keywords == <<
  <<"ai_ml", <<"ai", "ml", "machine learning", "artificial intelligence", "model",
               "training", "algorithm", "neural network", "gpt", "claude", "llm",
               "prompt", "inference">> >>,
  <<"development", <<"code", "coding", "programming", "development", "github",
               "vercel", "react", "javascript", "python", "api", "database",
               "frontend", "backend", "microservices">> >>,
  <<"security", <<"security", "compliance", "encryption", "authentication",
               "authorization", "vulnerabilities", "threats", "cybersecurity",
               "siem", "soc">> >>,
  <<"business", <<"client", "customer", "revenue", "pricing", "sales", "marketing",
               "business model", "strategy", "competitive", "market">> >>,
  <<"infrastructure", <<"cloud", "aws", "azure", "kubernetes", "docker",
               "infrastructure", "deployment", "scaling", "architecture">> >>,
  <<"automation", <<"automation", "workflow", "process", "efficiency",
               "optimization", "integration", "pipeline">> >> >>

\* self.business_keywords, in dict order
business_keywords == <<
  <<"strategy", <<"strategy", "strategic", "vision", "roadmap", "planning",
               "objectives", "goals">> >>,
  <<"operations", <<"operations", "process", "workflow", "efficiency",
               "optimization", "management">> >>,
  <<"finance", <<"cost", "pricing", "revenue", "budget", "investment", "roi",
               "financial">> >>,
  <<"sales", <<"sales", "selling", "prospect", "lead", "conversion", "pipeline",
               "funnel">> >>,
  <<"product", <<"product", "feature", "development", "iteration", "feedback",
               "user experience">> >> >>

personal_indicators == <<"personal", "family", "life", "feeling", "tired", "weekend">>
professional_indicators == <<"project", "client", "work", "business", "meeting", "deadline">>

\* Scores are fractions hits/len(keywords) with len in {6, 7, 9, 10, 13, 14}; they
\* are kept exactly as integers in units of 1/ScoreScale (the LCM of the lengths).
ScoreScale == 2 * 5 * 7 * 9 * 13

\* score / len(keywords), in units of 1/ScoreScale
Ratio(hits, size) == (hits * ScoreScale) \div size

(***************************************************************************)
(* _classify_message_topics: a dict label -> score, as the sequence of its *)
(* items in insertion order                                                *)
(***************************************************************************)

\* one "for category, keywords in table.items()" loop of _classify_message_topics
CategoryScores(prefix, table, message_lower) ==
  LET all == [k \in 1..Len(table) |->
                [label |-> prefix \o table[k][1],
                 hits  |-> CountContained(message_lower, table[k][2]),
                 size  |-> Len(table[k][2])]]
      hit == SelectSeq(all, LAMBDA e : e.hits > 0)
  IN  [k \in 1..Len(hit) |-> [label |-> hit[k].label, score |-> Ratio(hit[k].hits, hit[k].size)]]

_classify_message_topics(message) ==
  LET message_lower == str_lower(message)
      personal_score == CountContained(message_lower, personal_indicators)
      professional_score == CountContained(message_lower, professional_indicators)
  IN  CategoryScores("tech_", technical_keywords, message_lower)
      \o CategoryScores("business_", business_keywords, message_lower)
      \o (IF personal_score > professional_score
          THEN << [label |-> "personal",
                   score |-> Ratio(personal_score, Len(personal_indicators))] >>
          ELSE << [label |-> "professional",
                   score |-> Ratio(professional_score, Len(professional_indicators))] >>)


(***************************************************************************)
(* The transcript: messages are JSON objects, i.e. functions from the keys *)
(* they carry to strings; a message that lacks a field lacks the key.      *)
(***************************************************************************)

Message(speaker, timestamp, text) ==
  [speaker |-> speaker, timestamp |-> timestamp, message |-> text]

\* "key in msg": msg[key] raises KeyError otherwise
Has(msg, key) == key \in DOMAIN msg

\* the object with one key removed
Without(msg, key) == [k \in (DOMAIN msg) \ {key} |-> msg[k]]

Speakers == {"Alice", "Bob"}

\* The worked example of the specification (section 8).
ExampleTexts == <<
  "Let's discuss the AI model architecture and training pipeline.",
  "I agree, the model needs more training data.",
  "Moving on, what about the client contract pricing?",
  "The pricing strategy needs revenue projections." >>

\* Message texts of the general corpora: a technical statement, a statement opened
\* by a transition phrase, and a short reply that matches no keyword.
Vocabulary == {ExampleTexts[1], ExampleTexts[3], "Ok."}

\* A statement of more than ExcerptLen characters that reports a decision, gives an
\* action and calls itself important.
LongStatement ==
  "It is important that everybody understands what the committee decided yesterday "
  \o "afternoon: volunteers should circulate handwritten observations beforehand, "
  \o "otherwise newcomers cannot participate meaningfully throughout forthcoming "
  \o "neighbourhood gatherings."

\* Message texts of the long corpora: the long statement and a two-word reply that
\* reports a decision
LongVocabulary == {LongStatement, "Agreed, final."}

Texts == Vocabulary \cup {ExampleTexts[k] : k \in 1..Len(ExampleTexts)} \cup LongVocabulary

\* Timestamps as parse_transcript writes them ("2025-06-12 " + "H:MM AM"), one per
\* message position: two messages may share a minute, and the hour may change.
RegularClock ==
  << "2025-06-12 10:00 AM", "2025-06-12 10:01 AM", "2025-06-12 10:02 AM",
     "2025-06-12 10:03 AM", "2025-06-12 10:04 AM", "2025-06-12 10:05 AM" >>

IrregularClock ==
  << "2025-06-12 9:58 AM", "2025-06-12 9:59 AM", "2025-06-12 9:59 AM",
     "2025-06-12 10:00 AM", "2025-06-12 10:00 AM", "2025-06-12 10:01 AM" >>

Clocks == {RegularClock, IrregularClock}

\* the length of the longest corpus
MaxLong == 11

TwoDigits(n) ==
  LET Digits == << "0", "1", "2", "3", "4", "5", "6", "7", "8", "9" >>
  IN  Digits[(n \div 10) + 1] \o Digits[(n % 10) + 1]

\* one message a minute from 10:00 AM on
LongClock == [k \in 1..MaxLong |-> "2025-06-12 10:" \o TwoDigits(k - 1) \o " AM"]

Timestamps == UNION {{c[k] : k \in 1..Len(c)} : c \in Clocks \cup {LongClock}}

\* start <= ts on the timestamp strings, tabulated
TimestampLeq == [a \in Timestamps, b \in Timestamps |-> StrLeq(a, b)] @@ << >>

\* _classify_message_topics, tabulated over the texts of the model
classified == [t \in Texts |-> _classify_message_topics(t)] @@ << >>

\* dict lookups on a score dict held as its item sequence
Labels(scores) == {scores[k].label : k \in 1..Len(scores)}
ScoreOf(scores, label) ==
  LET k == CHOOSE k \in 1..Len(scores) : scores[k].label = label IN scores[k].score
\* topics.get(label, 0)
ScoreOrZero(scores, label) == IF label \in Labels(scores) THEN ScoreOf(scores, label) ELSE 0

(***************************************************************************)
(* _is_topic_transition and _average_topic_scores                          *)
(***************************************************************************)

transition_phrases == << "moving on", "next topic", "switching to", "let's talk about",
                         "on another note", "changing subjects", "speaking of" >>

has_transition_phrase == [t \in Texts |-> ContainsAny(str_lower(t), transition_phrases)] @@ << >>

\* the score-change threshold 0.3, in tenths
ScoreChangeTenths == 3
\* topic_buffer[-3:] and the buffer length that enables the score rule
RecentWindow == 3

\* averages[topic] = sum(scores) / len(scores): kept as the pair (sum, len)
_average_topic_scores(topic_lists) ==
  LET all_topics == UNION {Labels(topic_lists[k]) : k \in 1..Len(topic_lists)}
  IN  [topic \in all_topics |->
         [sum |-> SumSeq([k \in 1..Len(topic_lists) |-> ScoreOrZero(topic_lists[k], topic)]),
          len |-> Len(topic_lists)]]

\* abs(score - avg) > 0.3, with avg = sum/len and scores in units of 1/ScoreScale
ScoreChanged(score, avg) ==
  10 * Abs(score * avg.len - avg.sum) > ScoreChangeTenths * ScoreScale * avg.len

_is_topic_transition_after_first(topic_buffer, current_msg, current_topics) ==
  IF Len(topic_buffer) = 0 THEN FALSE
  ELSE IF has_transition_phrase[current_msg.message] THEN TRUE
  ELSE IF Len(topic_buffer) >= RecentWindow
       THEN LET n == Len(topic_buffer)
                recent_topics == [k \in 1..RecentWindow |->
                                    classified[topic_buffer[n - RecentWindow + k].message]]
                avg_recent_scores == _average_topic_scores(recent_topics)
            IN  \E k \in 1..Len(current_topics) :
                   \/ current_topics[k].label \notin DOMAIN avg_recent_scores
                   \/ ScoreChanged(current_topics[k].score,
                                   avg_recent_scores[current_topics[k].label])
       ELSE FALSE

_is_topic_transition(topic_buffer, current_msg, current_topics) ==
  IF Len(topic_buffer) = 0 THEN TRUE
  ELSE IF has_transition_phrase[current_msg.message] THEN TRUE
  ELSE IF Len(topic_buffer) >= RecentWindow
       THEN LET n == Len(topic_buffer)
                recent_topics == [k \in 1..RecentWindow |->
                                    classified[topic_buffer[n - RecentWindow + k].message]]
                avg_recent_scores == _average_topic_scores(recent_topics)
            IN  \E k \in 1..Len(current_topics) :
                   \/ current_topics[k].label \notin DOMAIN avg_recent_scores
                   \/ ScoreChanged(current_topics[k].score,
                                   avg_recent_scores[current_topics[k].label])
       ELSE FALSE

(***************************************************************************)
(* Results of calls that may raise: exc is the exception ("" for none).    *)
(***************************************************************************)

Returned(value) == [exc |-> "", val |-> value]
Raised(exception) == [exc |-> exception, val |-> << >>]

(***************************************************************************)
(* _start_new_topic, _update_topic                                         *)
(***************************************************************************)

\* max(message_topics.items(), key=lambda x: x[1])[0]: the first item of maximal score
PrimaryTopic(message_topics) ==
  LET k == CHOOSE k \in 1..Len(message_topics) :
              /\ \A j \in 1..Len(message_topics) : message_topics[j].score <= message_topics[k].score
              /\ \A j \in 1..(k - 1) : message_topics[j].score < message_topics[k].score
  IN  message_topics[k].label

\* primary_topic.startswith("tech_")
StartsWithTech(label) == Len(label) >= 5 /\ SubSeq(label, 1, 5) = "tech_"

_start_new_topic(message_topics, msg) ==
  LET primary_topic == IF Len(message_topics) = 0 THEN "general_discussion"
                       ELSE PrimaryTopic(message_topics)
      category == IF Len(message_topics) = 0 THEN "general"
                  ELSE IF StartsWithTech(primary_topic) THEN "technical" ELSE "business"
  IN  IF ~Has(msg, "timestamp") \/ ~Has(msg, "speaker") THEN Raised("KeyError")
      ELSE Returned([primary_topic |-> primary_topic,
                     category |-> category,
                     start_time |-> msg.timestamp,
                     speakers |-> {msg.speaker},
                     topics_discussed |-> message_topics])

RECURSIVE MergeScores(_, _)
\* the loop of _update_topic over message_topics.items()
MergeScores(discussed, message_topics) ==
  IF Len(message_topics) = 0 THEN discussed
  ELSE LET item == Head(message_topics)
           merged ==
             IF item.label \in Labels(discussed)
             THEN [k \in 1..Len(discussed) |->
                     IF discussed[k].label = item.label
                     THEN [label |-> item.label, score |-> Max(discussed[k].score, item.score)]
                     ELSE discussed[k]]
             ELSE Append(discussed, item)
       IN  MergeScores(merged, Tail(message_topics))

_update_topic_overwrite(current_topic, message_topics) ==
  [current_topic EXCEPT !.topics_discussed = message_topics]

_update_topic(current_topic, message_topics) ==
  [current_topic EXCEPT !.topics_discussed = MergeScores(@, message_topics)]

(***************************************************************************)
(* _generate_keyword_title                                                 *)
(***************************************************************************)

RECURSIVE WordEnd(_, _)
\* the last position of the run of \w characters that starts at p
WordEnd(text, p) ==
  IF p < Len(text) /\ IsWordChar(CharAt(text, p + 1)) THEN WordEnd(text, p + 1) ELSE p

\* the word length the pattern [a-zA-Z]{4,} asks for
MinWordLen == 4

RECURSIVE NextWord(_, _)
\* the first position from p on that holds a \w character, or Len(text) + 1
NextWord(text, p) ==
  IF p <= Len(text) /\ ~IsWordChar(CharAt(text, p)) THEN NextWord(text, p + 1) ELSE p

RECURSIVE WordsFrom(_, _)
\* the matches of the pattern from the word that starts at position start on
WordsFrom(text, start) ==
  IF start > Len(text) THEN << >>
  ELSE LET q == WordEnd(text, start)
           word == SubSeq(text, start, q)
           matches == /\ q - start + 1 >= MinWordLen
                      /\ \A r \in start..q : IsAlpha(CharAt(text, r))
       IN  (IF matches THEN << word >> ELSE << >>) \o WordsFrom(text, NextWord(text, q + 1))

\* re.findall(r'\b[a-zA-Z]{4,}\b', text), scanning from position p: the maximal runs
\* of \w characters that are all letters and at least 4 long
FindWords(text, p) == WordsFrom(text, NextWord(text, p))

stop_words == {"that", "this", "with", "have", "will", "from", "they", "been", "were",
               "said", "each", "which", "their", "time", "like", "just", "know", "think",
               "want", "need", "make", "come", "going", "really", "would", "could", "should"}

\* The words of one message.  The title is computed over " ".join of the messages;
\* the separator is not a \w character, so the words of the joined text are the
\* words of the messages, in order.
message_words == [t \in Texts |-> FindWords(str_lower(t), 1)] @@ << >>

RECURSIVE Flatten(_)
Flatten(seqs) == IF Len(seqs) = 0 THEN << >> ELSE Head(seqs) \o Flatten(Tail(seqs))

\* the number of titles words kept: most_common(3)
TitleWords == 3

RECURSIVE MostCommon(_, _)
\* Counter(words).most_common(n): by count, descending; ties in first-seen order
MostCommon(words, n) ==
  IF n = 0 \/ Len(words) = 0 THEN << >>
  ELSE LET Count(w) == Cardinality({k \in 1..Len(words) : words[k] = w})
           first == CHOOSE k \in 1..Len(words) :
                       /\ \A j \in 1..Len(words) : Count(words[j]) <= Count(words[k])
                       /\ \A j \in 1..(k - 1) : Count(words[j]) < Count(words[k])
           top == words[first]
       IN  << top >> \o MostCommon(SelectSeq(words, LAMBDA w : w # top), n - 1)

\* word.title() of a lower-case alphabetic word
Capitalize(word) == UpperChar(Head(word)) \o Tail(word)

_generate_keyword_title(messages) ==
  LET words == Flatten([k \in 1..Len(messages) |-> message_words[messages[k].message]])
      meaningful_words == SelectSeq(words, LAMBDA w : w \notin stop_words)
      top_words == MostCommon(meaningful_words, TitleWords)
  IN  IF Len(top_words) > 0
      THEN Join(" ", [k \in 1..Len(top_words) |-> Capitalize(top_words[k])])
      ELSE "General Discussion"

(***************************************************************************)
(* hash(topic_title): CPython's str hash is keyed by a per-process random  *)
(* seed (PYTHONHASHSEED).  The model keeps what the program relies on: the *)
(* value is a function of the seed and the characters, signed, fixed width.*)
(***************************************************************************)

HashModulus == 2 ^ 16

RECURSIVE HashFrom(_, _)
HashFrom(h, s) ==
  IF s = "" THEN h ELSE HashFrom((h * 31 + Ord(Head(s))) % HashModulus, Tail(s))

str_hash(seed, s) ==
  LET h == HashFrom((seed * 40503 + 1) % HashModulus, s)
  IN  IF 2 * h >= HashModulus THEN h - HashModulus ELSE h

\* f"topic_{hash(topic_title)}"
TopicId(seed, topic_title) == "topic_" \o ToString(str_hash(seed, topic_title))

(***************************************************************************)
(* _calculate_duration: strptime(ts, "%Y-%m-%d %I:%M %p") on both ends;    *)
(* any parse failure gives 0.0.  All timestamps of one transcript carry    *)
(* the same date (parse_transcript), so the difference is that of the      *)
(* minutes of the day.                                                     *)
(***************************************************************************)

IsNumber(s) == Len(s) > 0 /\ \A k \in 1..Len(s) : IsDigit(CharAt(s, k))

RECURSIVE ToInt(_)
ToInt(s) == IF s = "" THEN 0 ELSE 10 * ToInt(SubSeq(s, 1, Len(s) - 1)) + (Ord(CharAt(s, Len(s))) - 48)

\* minutes since midnight, or -1 when the time does not match "%I:%M %p"
MinuteOfDay(ts) ==
  LET time == SubSeq(ts, 12, Len(ts))
      colon == IF Len(time) >= 2 /\ CharAt(time, 2) = ":" THEN 2 ELSE 3
      hour == SubSeq(time, 1, colon - 1)
      minute == SubSeq(time, colon + 1, colon + 2)
      half == SubSeq(time, colon + 3, Len(time))
      wellformed == /\ Len(time) = colon + 5
                    /\ CharAt(time, colon) = ":"
                    /\ IsNumber(hour) /\ IsNumber(minute)
                    /\ ToInt(hour) \in 1..12 /\ ToInt(minute) \in 0..59
                    /\ half \in {" AM", " PM"}
  IN  IF ~wellformed THEN -1
      ELSE ((ToInt(hour) % 12) + (IF half = " PM" THEN 12 ELSE 0)) * 60 + ToInt(minute)

minute_of_day == [ts \in Timestamps |-> MinuteOfDay(ts)] @@ << >>

_calculate_duration(start_time, end_time) ==
  IF minute_of_day[start_time] < 0 \/ minute_of_day[end_time] < 0 THEN 0
  ELSE minute_of_day[end_time] - minute_of_day[start_time]

(***************************************************************************)
(* _extract_key_content                                                    *)
(***************************************************************************)

decision_indicators == <<"decided", "agreed", "conclusion", "final", "settled">>
action_indicators == <<"will", "should", "need to", "going to", "plan to", "next step">>

\* msg['message'][:200], the length a key point must exceed, and the caps [:5] [:3] [:5]
ExcerptLen == 200
KeyPointMinLen == 100
MaxKeyPoints == 5
MaxDecisions == 3
MaxActionItems == 5

is_decision == [t \in Texts |-> ContainsAny(str_lower(t), decision_indicators)] @@ << >>
is_action_item == [t \in Texts |-> ContainsAny(str_lower(t), action_indicators)] @@ << >>
is_key_point == [t \in Texts |->
                   /\ Len(t) > KeyPointMinLen
                   /\ ContainsAny(str_lower(t), <<"important", "key">>)] @@ << >>

\* q[:n]
Take(q, n) == SubSeq(q, 1, Min(n, Len(q)))

_extract_key_content_last(messages) ==
  LET texts == [k \in 1..Len(messages) |-> messages[k].message]
      Excerpts(flag) ==
        LET kept == SelectSeq(texts, LAMBDA t : flag[t])
        IN  [k \in 1..Len(kept) |-> Truncate(kept[k], ExcerptLen)]
      Last(q, n) == SubSeq(q, Max(1, Len(q) - n + 1), Len(q))
  IN  [key_points   |-> Last(Excerpts(is_key_point), MaxKeyPoints),
       decisions    |-> Last(Excerpts(is_decision), MaxDecisions),
       action_items |-> Last(Excerpts(is_action_item), MaxActionItems)]

_extract_key_content(messages) ==
  LET texts == [k \in 1..Len(messages) |-> messages[k].message]
      Excerpts(flag) ==
        LET kept == SelectSeq(texts, LAMBDA t : flag[t])
        IN  [k \in 1..Len(kept) |-> Truncate(kept[k], ExcerptLen)]
  IN  [key_points   |-> Take(Excerpts(is_key_point), MaxKeyPoints),
       decisions    |-> Take(Excerpts(is_decision), MaxDecisions),
       action_items |-> Take(Excerpts(is_action_item), MaxActionItems)]

(***************************************************************************)
(* _calculate_context_score: (min(total_length/1000, 1) + unique/roster)/2 *)
(* as the exact fraction num/den.                                          *)
(***************************************************************************)

LengthCap == 1000

_calculate_context_score(messages, participants) ==
  LET total_length == SumSeq([k \in 1..Len(messages) |-> Len(messages[k].message)])
      unique_speakers == Cardinality({messages[k].speaker : k \in 1..Len(messages)})
  IN  IF \E k \in 1..Len(messages) : ~Has(messages[k], "speaker") THEN Raised("KeyError")
      ELSE IF Len(participants) = 0 THEN Raised("ZeroDivisionError")
      ELSE Returned([num |-> Min(total_length, LengthCap) * Len(participants)
                               + LengthCap * unique_speakers,
                     den |-> 2 * LengthCap * Len(participants)])

(***************************************************************************)
(* _finalize_topic                                                         *)
(***************************************************************************)

_finalize_topic(topic_data, messages, participants, seed) ==
  LET topic_title == _generate_keyword_title(messages)
      first == messages[1]
      last == messages[Len(messages)]
      content == _extract_key_content(messages)
      context_score == _calculate_context_score(messages, participants)
  IN  IF ~Has(first, "timestamp") \/ ~Has(last, "timestamp") THEN Raised("KeyError")
      ELSE IF context_score.exc # "" THEN context_score
      ELSE Returned(
             [id |-> TopicId(seed, topic_title),
              title |-> topic_title,
              category |-> topic_data.category,
              subcategory |-> topic_data.primary_topic,
              start_time |-> first.timestamp,
              end_time |-> last.timestamp,
              duration_minutes |-> _calculate_duration(first.timestamp, last.timestamp),
              message_count |-> Len(messages),
              speakers |-> topic_data.speakers,
              key_points |-> content.key_points,
              decisions |-> content.decisions,
              action_items |-> content.action_items,
              context_score |-> context_score.val])

(***************************************************************************)
(* The process state                                                       *)
(***************************************************************************)

VARIABLES
  conversations,      \* self.conversations: the transcript's message list
  participants,       \* self.participants: the transcript's roster, a list
  hashseed,           \* the process's string-hash seed
  blob_value,         \* environment: what the sentiment scorer answers for a text
  faults,             \* environment: scorer failures it may still inject in this run
  pc,                 \* where extract_comprehensive_insights is
  exception,          \* the exception that ended the run ("" while none)
  i,                  \* extract_topics: the number of messages consumed
  topics,             \* extract_topics: the TopicDiscussion list built so far
  current_topic,      \* extract_topics: << >> for None, else << topic dict >>
  topic_buffer,       \* extract_topics: the messages of the open topic
  finalized,          \* history: the buffer each TopicDiscussion was finalized from
  n_done,             \* extract_speaker_insights: qualifying pairs already handled
  speaker_insights,   \* extract_speaker_insights: the SpeakerInsight list built so far
  sentiment_analysis, \* << >> until analyze_sentiment returned, else << SentimentAnalysis >>
  diarization,        \* the Diarization list
  insights            \* << >> until the report is compiled, else << report >>

vars == << conversations, participants, hashseed, blob_value, faults, pc, exception,
           i, topics, current_topic, topic_buffer, finalized,
           n_done, speaker_insights, sentiment_analysis, diarization, insights >>

input == << conversations, participants, hashseed, blob_value >>
segmenter == << i, topics, current_topic, topic_buffer, finalized >>
products == << n_done, speaker_insights, sentiment_analysis, diarization, insights >>

(***************************************************************************)
(* extract_topics: one loop iteration, and the code after the loop         *)
(***************************************************************************)

\* topic_buffer = [msg]
NewBufferDropsOpener(msg) == << >>

\* topic_buffer = [msg]
NewBuffer(msg) == << msg >>

\* The body of "for i, msg in enumerate(self.conversations)" on the locals seg.
SegmentStep(seg, msg, roster, seed) ==
  IF ~Has(msg, "message") THEN [seg EXCEPT !.exc = "KeyError"]
  ELSE
  LET message_topics == classified[msg.message] IN
  IF _is_topic_transition(seg.topic_buffer, msg, message_topics)
  THEN LET closing == Len(seg.current_topic) > 0 /\ Len(seg.topic_buffer) > 0
           topic == IF closing
                    THEN _finalize_topic(seg.current_topic[1], seg.topic_buffer, roster, seed)
                    ELSE Returned(<< >>)
           started == _start_new_topic(message_topics, msg)
       IN  IF topic.exc # "" THEN [seg EXCEPT !.exc = topic.exc]
           ELSE IF started.exc # "" THEN [seg EXCEPT !.exc = started.exc]
           ELSE [exc |-> "",
                 topics |-> IF closing THEN Append(seg.topics, topic.val) ELSE seg.topics,
                 finalized |-> IF closing THEN Append(seg.finalized, seg.topic_buffer)
                               ELSE seg.finalized,
                 current_topic |-> << started.val >>,
                 topic_buffer |-> NewBuffer(msg)]
  ELSE [seg EXCEPT
          !.topic_buffer = Append(@, msg),
          !.current_topic = IF Len(@) > 0 THEN << _update_topic(@[1], message_topics) >> ELSE @]

SegmentEndDropsPending(seg, roster, seed) == seg

\* "Handle final topic" and return topics
SegmentEnd(seg, roster, seed) ==
  IF Len(seg.current_topic) > 0 /\ Len(seg.topic_buffer) > 0
  THEN LET topic == _finalize_topic(seg.current_topic[1], seg.topic_buffer, roster, seed)
       IN  IF topic.exc # "" THEN [seg EXCEPT !.exc = topic.exc]
           ELSE [seg EXCEPT !.topics = Append(@, topic.val),
                            !.finalized = Append(@, seg.topic_buffer)]
  ELSE seg

\* topics = [], current_topic = None, topic_buffer = []
SegmentStart ==
  [exc |-> "", topics |-> << >>, finalized |-> << >>,
   current_topic |-> << >>, topic_buffer |-> << >>]

RECURSIVE SegmentPrefix(_, _, _, _)
\* the locals after the first n iterations of the loop
SegmentPrefix(corpus, n, roster, seed) ==
  IF n = 0 THEN SegmentStart
  ELSE LET before == SegmentPrefix(corpus, n - 1, roster, seed)
       IN  IF before.exc # "" THEN before ELSE SegmentStep(before, corpus[n], roster, seed)

\* extract_topics as a function of the corpus, the roster and the process's hash seed
extract_topics(corpus, roster, seed) ==
  LET looped == SegmentPrefix(corpus, Len(corpus), roster, seed)
      ended == SegmentEnd(looped, roster, seed)
  IN  IF looped.exc # "" THEN Raised(looped.exc)
      ELSE IF ended.exc # "" THEN Raised(ended.exc)
      ELSE Returned(ended.topics)

Locals ==
  [exc |-> "", topics |-> topics, finalized |-> finalized,
   current_topic |-> current_topic, topic_buffer |-> topic_buffer]

SetLocals(seg) ==
  /\ topics' = seg.topics
  /\ finalized' = seg.finalized
  /\ current_topic' = seg.current_topic
  /\ topic_buffer' = seg.topic_buffer

\* an exception leaves extract_comprehensive_insights
Raise(name) ==
  /\ pc' = "raised"
  /\ exception' = name

ExtractTopicsIterate ==
  /\ pc = "extract_topics"
  /\ i < Len(conversations)
  /\ LET seg == SegmentStep(Locals, conversations[i + 1], participants, hashseed)
     IN  /\ SetLocals(seg)
         /\ IF seg.exc # "" THEN Raise(seg.exc) /\ i' = i
            ELSE pc' = pc /\ exception' = exception /\ i' = i + 1
  /\ UNCHANGED << input, faults, products >>

ExtractTopicsReturn ==
  /\ pc = "extract_topics"
  /\ i = Len(conversations)
  /\ LET seg == SegmentEnd(Locals, participants, hashseed)
     IN  /\ SetLocals(seg)
         /\ IF seg.exc # "" THEN Raise(seg.exc)
            ELSE pc' = "extract_speaker_insights" /\ exception' = exception
  /\ UNCHANGED << input, faults, i, products >>

(***************************************************************************)
(* The sentiment scorer (TextBlob(text).sentiment), an external capability.*)
(* For the empty text it answers (0, 0); for any other text it answers the *)
(* environment's value or fails.  Polarity and subjectivity are in units   *)
(* of 1/10000.                                                             *)
(***************************************************************************)

ScorerIgnoresEmptiness(text, f) ==
  {[exc |-> "", value |-> blob_value, faults |-> f]}
  \cup (IF f > 0 THEN {[exc |-> "ScorerError", value |-> << 0, 0 >>, faults |-> f - 1]}
        ELSE {})

\* one evaluation of blob.sentiment with f failures left to inject
Scorer(text, f) ==
  IF text = "" THEN {[exc |-> "", value |-> << 0, 0 >>, faults |-> f]}
  ELSE {[exc |-> "", value |-> blob_value, faults |-> f]}
       \cup (IF f > 0 THEN {[exc |-> "ScorerError", value |-> << 0, 0 >>, faults |-> f - 1]}
             ELSE {})

\* _get_sentiment_scores(blob): the scorer's answer, or (0.0, 0.0) when it raises.
\* cached tells whether blob.sentiment is now stored on the blob (cached_property).
_get_sentiment_scores(text, f) ==
  { [polarity |-> IF r.exc = "" THEN r.value[1] ELSE 0,
     subjectivity |-> IF r.exc = "" THEN r.value[2] ELSE 0,
     cached |-> r.exc = "",
     faults |-> r.faults] : r \in Scorer(text, f) }

\* 0.15 in units of 1/10000
SentimentThreshold == 1500

_classify_sentiment_inclusive(polarity) ==
  IF polarity >= SentimentThreshold THEN "positive"
  ELSE IF polarity <= -SentimentThreshold THEN "negative"
  ELSE "neutral"

_classify_sentiment(polarity) ==
  IF polarity > SentimentThreshold THEN "positive"
  ELSE IF polarity < -SentimentThreshold THEN "negative"
  ELSE "neutral"

(***************************************************************************)
(* extract_speaker_insights and _generate_speaker_insight                  *)
(***************************************************************************)

\* [msg for msg in self.conversations if topic.start_time <= msg['timestamp'] <= topic.end_time]
TopicMessages(topic, corpus) ==
  SelectSeq(corpus, LAMBDA msg :
      /\ TimestampLeq[topic.start_time, msg.timestamp]
      /\ TimestampLeq[msg.timestamp, topic.end_time])

\* the keys of a dict filled in message order: speakers by first appearance
RECURSIVE FirstAppearance(_)
FirstAppearance(messages) ==
  IF Len(messages) = 0 THEN << >>
  ELSE LET before == FirstAppearance(SubSeq(messages, 1, Len(messages) - 1))
           speaker == messages[Len(messages)].speaker
       IN  IF \E k \in 1..Len(before) : before[k] = speaker THEN before
           ELSE Append(before, speaker)

MessagesOf(speaker, messages) == SelectSeq(messages, LAMBDA msg : msg.speaker = speaker)

\* the minimum threshold for insight generation
MinContribution == 2

\* the (speaker, messages) items of one topic that pass "len(messages) >= 2"
TopicPairs(topic, corpus) ==
  LET topic_messages == TopicMessages(topic, corpus)
      speakers == FirstAppearance(topic_messages)
      items == [k \in 1..Len(speakers) |->
                  [topic |-> topic, speaker |-> speakers[k],
                   messages |-> MessagesOf(speakers[k], topic_messages)]]
  IN  SelectSeq(items, LAMBDA item : Len(item.messages) >= MinContribution)

\* every pair the two loops of extract_speaker_insights generate an insight for, in
\* loop order; the first topic's filter reads every message's timestamp
QualifyingPairs(all_topics, corpus) ==
  IF Len(all_topics) > 0 /\ \E k \in 1..Len(corpus) : ~Has(corpus[k], "timestamp")
  THEN Raised("KeyError")
  ELSE IF Len(all_topics) > 0 /\ \E k \in 1..Len(corpus) : ~Has(corpus[k], "speaker")
  THEN Raised("KeyError")
  ELSE Returned(Flatten([k \in 1..Len(all_topics) |-> TopicPairs(all_topics[k], corpus)]))

\* What client.chat_completion(...) can do: raise (timeout, service unavailable, a
\* response of another shape), or return a response with a list of choices, each
\* holding the generated content.
Responses ==
  { [raises |-> TRUE, choices |-> << >>],
    [raises |-> FALSE, choices |-> << >>],
    [raises |-> FALSE, choices |-> << "" >>],
    [raises |-> FALSE, choices |-> << " Kept the discussion on track. " >>] }

RECURSIVE LStrip(_)
LStrip(s) == IF s # "" /\ IsSpace(Head(s)) THEN LStrip(Tail(s)) ELSE s
RECURSIVE RStrip(_)
RStrip(s) ==
  IF s # "" /\ IsSpace(CharAt(s, Len(s))) THEN RStrip(SubSeq(s, 1, Len(s) - 1)) ELSE s
\* s.strip()
Strip(s) == RStrip(LStrip(s))

\* the return statement of _generate_ai_insight
_generate_ai_insight(response) ==
  IF Len(response.choices) > 0 THEN Strip(response.choices[1]) ELSE ""

\* the thresholds of _generate_heuristic_insight
DetailedAvgLen == 100
EngagedCount == 5

_generate_heuristic_insight_count_first(speaker, messages, topic) ==
  LET message_count == Len(messages)
      total_length == SumSeq([k \in 1..Len(messages) |-> Len(messages[k].message)])
  IN  IF message_count > EngagedCount
      THEN speaker \o " was highly engaged in the discussion about " \o topic.title
      ELSE IF total_length > DetailedAvgLen * message_count
      THEN speaker \o " provided detailed explanations and deep insights on " \o topic.title
      ELSE speaker \o " contributed to the conversation about " \o topic.title

_generate_heuristic_insight(speaker, messages, topic) ==
  LET message_count == Len(messages)
      total_length == SumSeq([k \in 1..Len(messages) |-> Len(messages[k].message)])
  IN  IF total_length > DetailedAvgLen * message_count
      THEN speaker \o " provided detailed explanations and deep insights on " \o topic.title
      ELSE IF message_count > EngagedCount
      THEN speaker \o " was highly engaged in the discussion about " \o topic.title
      ELSE speaker \o " contributed to the conversation about " \o topic.title

\* the thresholds of _assess_engagement_level, in tenths
DominantTenths == 6
HighTenths == 3
MediumTenths == 1

_assess_engagement_level(messages, topic) ==
  LET message_count == Len(messages)
      total_topic_messages == topic.message_count
      \* participation_ratio * total; 0 when the topic has no messages
      Above(tenths) == total_topic_messages > 0
                       /\ 10 * message_count > tenths * total_topic_messages
  IN  IF Above(DominantTenths) THEN "dominant"
      ELSE IF Above(HighTenths) THEN "high"
      ELSE IF Above(MediumTenths) THEN "medium"
      ELSE "low"

\* insight_text: the generated text, or the heuristic one when the call raised
InsightText(response, speaker, messages, topic) ==
  IF response.raises THEN _generate_heuristic_insight(speaker, messages, topic)
  ELSE _generate_ai_insight(response)

\* _generate_speaker_insight after the chat completion call ended with response;
\* blob.sentiment.polarity is read outside any try
_generate_speaker_insight(speaker, messages, topic, response, f) ==
  LET combined_text == Join(" ", [k \in 1..Len(messages) |-> messages[k].message])
  IN  { IF r.exc # "" THEN [exc |-> r.exc, val |-> << >>, faults |-> r.faults]
        ELSE [exc |-> "",
              val |-> [speaker |-> speaker,
                       topic_id |-> topic.id,
                       insight |-> InsightText(response, speaker, messages, topic),
                       sentiment |-> _classify_sentiment(r.value[1]),
                       engagement_level |-> _assess_engagement_level(messages, topic)],
              faults |-> r.faults] : r \in Scorer(combined_text, f) }

\* The loops of extract_speaker_insights up to the next chat completion call, or to
\* the return when no pair is left.
ExtractSpeakerInsightsAdvance ==
  /\ pc = "extract_speaker_insights"
  /\ LET pairs == QualifyingPairs(topics, conversations)
     IN  IF pairs.exc # "" THEN Raise(pairs.exc)
         ELSE /\ pc' = IF n_done < Len(pairs.val) THEN "chat_completion"
                       ELSE "analyze_sentiment"
              /\ exception' = exception
  /\ UNCHANGED << input, faults, segmenter, products >>

\* The chat completion call of _generate_ai_insight ends, and the rest of
\* _generate_speaker_insight runs: insights.append(insight).
ChatCompletionEnds ==
  /\ pc = "chat_completion"
  /\ LET pair == QualifyingPairs(topics, conversations).val[n_done + 1]
     IN  \E response \in Responses :
         \E made \in _generate_speaker_insight(pair.speaker, pair.messages, pair.topic,
                                               response, faults) :
            /\ faults' = made.faults
            /\ IF made.exc # ""
               THEN Raise(made.exc) /\ UNCHANGED << n_done, speaker_insights >>
               ELSE /\ pc' = "extract_speaker_insights"
                    /\ exception' = exception
                    /\ n_done' = n_done + 1
                    /\ speaker_insights' = Append(speaker_insights, made.val)
  /\ UNCHANGED << input, segmenter, sentiment_analysis, diarization, insights >>

(***************************************************************************)
(* analyze_sentiment                                                       *)
(***************************************************************************)

TextOf(messages) == Join(" ", [k \in 1..Len(messages) |-> messages[k].message])

\* window_size of _create_sentiment_timeline
WindowSize == 10

WindowStartsOfFullWindows(n) == [k \in 1..(n \div WindowSize) |-> (k - 1) * WindowSize]

\* range(0, len(messages), window_size), as 0-based start indexes
WindowStarts(n) == [k \in 1..((n + WindowSize - 1) \div WindowSize) |-> (k - 1) * WindowSize]

Window(messages, start) ==
  SubSeq(messages, start + 1, Min(start + WindowSize, Len(messages)))

\* The places of analyze_sentiment that build a TextBlob, in execution order.  At a
\* speaker and at a topic, blob.sentiment is read a second time, outside
\* _get_sentiment_scores, for _generate_sentiment_tags.
SentimentSites(all_messages, roster, all_topics) ==
  << [text |-> TextOf(all_messages), reads_again |-> FALSE] >>
  \o [k \in 1..Len(roster) |->
        [text |-> TextOf(MessagesOf(roster[k], all_messages)), reads_again |-> TRUE]]
  \o [k \in 1..Len(all_topics) |->
        [text |-> TextOf(TopicMessages(all_topics[k], all_messages)), reads_again |-> TRUE]]
  \o [k \in 1..Len(WindowStarts(Len(all_messages))) |->
        [text |-> TextOf(Window(all_messages, WindowStarts(Len(all_messages))[k])),
         reads_again |-> FALSE]]

\* one site: the guarded read, then the unguarded one where there is one
SiteRun(site, f) ==
  UNION { IF ~site.reads_again \/ g.cached
          THEN {[exc |-> "", polarity |-> g.polarity, subjectivity |-> g.subjectivity,
                 faults |-> g.faults]}
          ELSE {[exc |-> r.exc, polarity |-> g.polarity, subjectivity |-> g.subjectivity,
                 faults |-> r.faults] : r \in Scorer(site.text, g.faults)}
          : g \in _get_sentiment_scores(site.text, f) }

RECURSIVE SitesRun(_, _)
\* the sites in order; an exception at one site ends the run of the sites
SitesRun(sites, f) ==
  IF Len(sites) = 0 THEN {[exc |-> "", scores |-> << >>, faults |-> f]}
  ELSE UNION { IF r.exc # "" THEN {[exc |-> r.exc, scores |-> << >>, faults |-> r.faults]}
               ELSE {[exc |-> rest.exc, scores |-> << r >> \o rest.scores,
                      faults |-> rest.faults] : rest \in SitesRun(Tail(sites), r.faults)}
               : r \in SiteRun(Head(sites), f) }

\* the last index of a sequence holding a key: a dict keeps the last value stored
LastIndex(keys, key) == SetMax({k \in 1..Len(keys) : keys[k] = key})

\* Counter(msg['speaker'] for msg in topic_messages) and what is derived from it
_analyze_topic_diarization(topic_messages) ==
  IF Len(topic_messages) = 0 THEN << >>
  ELSE LET speakers == FirstAppearance(topic_messages)
           Count(speaker) == Len(MessagesOf(speaker, topic_messages))
           total == Len(topic_messages)
           best == SetMax({Count(speakers[k]) : k \in 1..Len(speakers)})
           first_best == SetMin({k \in 1..Len(speakers) : Count(speakers[k]) = best})
       IN  << [speaker_participation |->
                 [speaker \in {speakers[k] : k \in 1..Len(speakers)} |->
                    [num |-> Count(speaker), den |-> total]],
               most_active_speaker |-> speakers[first_best],
               unique_speakers |-> Len(speakers)] >>

\* the SentimentAnalysis record built from the scores of the sites
SentimentAnalysisOf(all_messages, roster, all_topics, scores) ==
  LET speaker_at(k) == scores[1 + k]
      topic_at(k) == scores[1 + Len(roster) + k]
      window_at(k) == scores[1 + Len(roster) + Len(all_topics) + k]
      ids == [k \in 1..Len(all_topics) |-> all_topics[k].id]
      starts == WindowStarts(Len(all_messages))
  IN  [overall_sentiment |-> _classify_sentiment(scores[1].polarity),
       confidence |-> Abs(scores[1].polarity),
       emotional_intensity |-> Abs(scores[1].polarity),
       speaker_sentiments |->
         [speaker \in {roster[k] : k \in 1..Len(roster)} |->
            LET k == LastIndex(roster, speaker)
            IN  [overall_sentiment |-> _classify_sentiment(speaker_at(k).polarity),
                 polarity |-> speaker_at(k).polarity,
                 subjectivity |-> speaker_at(k).subjectivity,
                 emotional_intensity |-> Abs(speaker_at(k).polarity),
                 message_count |-> Len(MessagesOf(speaker, all_messages))]],
       topic_sentiments |->
         [id \in {ids[k] : k \in 1..Len(ids)} |->
            LET k == LastIndex(ids, id)
            IN  [sentiment |-> _classify_sentiment(topic_at(k).polarity),
                 polarity |-> topic_at(k).polarity,
                 subjectivity |-> topic_at(k).subjectivity,
                 diarization |->
                   _analyze_topic_diarization(TopicMessages(all_topics[k], all_messages))]],
       sentiment_timeline |->
         [k \in 1..Len(starts) |->
            [start_message |-> starts[k],
             end_message |-> Min(starts[k] + WindowSize - 1, Len(all_messages) - 1),
             timestamp |-> all_messages[starts[k] + 1].timestamp,
             sentiment |-> _classify_sentiment(window_at(k).polarity),
             polarity |-> window_at(k).polarity,
             subjectivity |-> window_at(k).subjectivity]]]

AnalyzeSentiment ==
  /\ pc = "analyze_sentiment"
  /\ \E run \in SitesRun(SentimentSites(conversations, participants, topics), faults) :
        /\ faults' = run.faults
        /\ IF run.exc # ""
           THEN Raise(run.exc) /\ UNCHANGED sentiment_analysis
           ELSE /\ pc' = "analyze_diarization"
                /\ exception' = exception
                /\ sentiment_analysis' =
                     << SentimentAnalysisOf(conversations, participants, topics, run.scores) >>
  /\ UNCHANGED << input, segmenter, n_done, speaker_insights, diarization, insights >>

(***************************************************************************)
(* analyze_diarization                                                     *)
(***************************************************************************)

\* the word counts of the interruption estimate
ShortWords == 3
LongWords == 10

\* one Diarization row; ratios are kept as fractions
DiarizationRowCountsShort(speaker, speaker_messages, total_messages) ==
  LET speaker_message_count == Len(speaker_messages)
      words == [k \in 1..Len(speaker_messages) |-> WordCount(speaker_messages[k].message)]
      speaker_words == SumSeq(words)
      question_count ==
        Cardinality({k \in 1..Len(speaker_messages) :
                       Contains(speaker_messages[k].message, "?")})
  IN  [speaker |-> speaker,
       speaking_percentage |-> [num |-> speaker_message_count * 100, den |-> total_messages],
       total_words |-> speaker_words,
       average_message_length |-> [num |-> speaker_words, den |-> speaker_message_count],
       interruption_count |->
         Cardinality({k \in 2..Len(speaker_messages) : words[k] < ShortWords}),
       question_count |-> question_count,
       statement_count |-> speaker_message_count - question_count]

DiarizationRow(speaker, speaker_messages, total_messages) ==
  LET speaker_message_count == Len(speaker_messages)
      words == [k \in 1..Len(speaker_messages) |-> WordCount(speaker_messages[k].message)]
      speaker_words == SumSeq(words)
      question_count ==
        Cardinality({k \in 1..Len(speaker_messages) :
                       Contains(speaker_messages[k].message, "?")})
  IN  [speaker |-> speaker,
       speaking_percentage |-> [num |-> speaker_message_count * 100, den |-> total_messages],
       total_words |-> speaker_words,
       average_message_length |-> [num |-> speaker_words, den |-> speaker_message_count],
       interruption_count |->
         Cardinality({k \in 2..Len(speaker_messages) :
                        words[k] < ShortWords /\ words[k - 1] > LongWords}),
       question_count |-> question_count,
       statement_count |-> speaker_message_count - question_count]

analyze_diarization_zero_rows(corpus, roster) ==
  [k \in 1..Len(roster) |->
     DiarizationRow(roster[k], MessagesOf(roster[k], corpus), Len(corpus))]

\* a row for every roster entry that has a message, in roster order
analyze_diarization(corpus, roster) ==
  LET rows == [k \in 1..Len(roster) |->
                 DiarizationRow(roster[k], MessagesOf(roster[k], corpus), Len(corpus))]
  IN  SelectSeq(rows, LAMBDA row : row.average_message_length.den > 0)

AnalyzeDiarization ==
  /\ pc = "analyze_diarization"
  /\ diarization' = analyze_diarization(conversations, participants)
  /\ pc' = "compile"
  /\ UNCHANGED << input, faults, exception, segmenter, n_done, speaker_insights,
                  sentiment_analysis, insights >>

(***************************************************************************)
(* The report of extract_comprehensive_insights                            *)
(***************************************************************************)

\* max(diarization, key=lambda x: x.speaking_percentage).speaker: the first row
\* holding the largest percentage; every row has the same denominator
MostActiveSpeaker(rows) ==
  IF Len(rows) = 0 THEN << >>
  ELSE LET best == SetMax({rows[k].speaking_percentage.num : k \in 1..Len(rows)})
           first_best == SetMin({k \in 1..Len(rows) : rows[k].speaking_percentage.num = best})
       IN  << rows[first_best].speaker >>

summary_statistics(all_topics, all_insights, rows) ==
  [total_topics |-> Len(all_topics),
   total_insights |-> Len(all_insights),
   average_topic_duration |->
     IF Len(all_topics) > 0
     THEN [num |-> SumSeq([k \in 1..Len(all_topics) |-> all_topics[k].duration_minutes]),
           den |-> Len(all_topics)]
     ELSE [num |-> 0, den |-> 1],
   most_active_speaker |-> MostActiveSpeaker(rows)]

CompileInsights ==
  /\ pc = "compile"
  /\ insights' =
       << [total_messages_analyzed |-> Len(conversations),
           participants |-> participants,
           topics_discussed |-> topics,
           speaker_insights |-> speaker_insights,
           sentiment_analysis |-> sentiment_analysis[1],
           diarization |-> diarization,
           summary_statistics |-> summary_statistics(topics, speaker_insights, diarization)] >>
  /\ pc' = "done"
  /\ UNCHANGED << input, faults, exception, segmenter, n_done, speaker_insights,
                  sentiment_analysis, diarization >>

(***************************************************************************)
(* The transcripts of the model                                            *)
(***************************************************************************)

MaxMsgs == 4

\* the message lists of length n over the given texts, stamped by clock
CorporaOf(texts, clock, n) ==
  { [k \in 1..n |-> Message(who[k], clock[k], what[k])] :
      who \in [1..n -> Speakers], what \in [1..n -> texts] }

Rosters == { << >>, << "Alice" >>, << "Alice", "Bob" >> }

HashSeeds == {0, 1}

\* what the scorer may answer: (polarity, subjectivity)
SentimentValues ==
  { << 0, 0 >>,
    << SentimentThreshold, 5000 >>, << SentimentThreshold + 1, 5000 >>,
    << -SentimentThreshold, 5000 >>, << -SentimentThreshold - 1, 5000 >> }

\* the scorer failures the environment may inject in one run
MaxFaults == 1

\* the locals of a run that has just been started
Start ==
  /\ pc = "extract_topics"
  /\ exception = ""
  /\ i = 0
  /\ topics = << >>
  /\ finalized = << >>
  /\ current_topic = << >>
  /\ topic_buffer = << >>
  /\ n_done = 0
  /\ speaker_insights = << >>
  /\ sentiment_analysis = << >>
  /\ diarization = << >>
  /\ insights = << >>

\* the worked example, stamped by clock
ExampleSpeakers == << "Alice", "Bob", "Alice", "Bob" >>

ExampleCorpus(clock) ==
  [k \in 1..Len(ExampleTexts) |-> Message(ExampleSpeakers[k], clock[k], ExampleTexts[k])]

Fields == {"speaker", "timestamp", "message"}

\* the worked example with one required field missing from one message
MalformedCorpora ==
  { [k \in 1..Len(ExampleTexts) |->
       IF k = m THEN Without(ExampleCorpus(RegularClock)[k], field)
       ELSE ExampleCorpus(RegularClock)[k]] :
    m \in 1..Len(ExampleTexts), field \in Fields }

\* every corpus over the vocabulary, against every roster, in a quiet environment
InitGeneral ==
  /\ \E n \in 0..MaxMsgs : conversations \in CorporaOf(Vocabulary, RegularClock, n)
  /\ participants \in Rosters
  /\ hashseed = 0
  /\ blob_value = << 0, 0 >>
  /\ faults = 0

\* the worked example and the empty corpus under every clock, roster, hash seed and
\* scorer behaviour
InitExample ==
  /\ conversations \in {ExampleCorpus(clock) : clock \in Clocks} \cup {<< >>}
  /\ participants \in Rosters
  /\ hashseed \in HashSeeds
  /\ blob_value \in SentimentValues
  /\ faults \in 0..MaxFaults

\* Message texts of the corpora on the irregular clock: a technical statement and a
\* statement opened by a transition phrase
IrregularVocabulary == {ExampleTexts[1], ExampleTexts[3]}

\* every corpus over these texts stamped by the clock on which minutes repeat and the
\* hour changes
InitIrregular ==
  /\ \E n \in 0..MaxMsgs :
        conversations \in CorporaOf(IrregularVocabulary, IrregularClock, n)
  /\ participants = << "Alice", "Bob" >>
  /\ hashseed = 0
  /\ blob_value = << 0, 0 >>
  /\ faults = 0

\* the length of the unit a long corpus repeats
MaxUnit == 3

\* the corpora of n messages that repeat a unit of at most MaxUnit (speaker, text)
\* items over the long vocabulary, one message a minute
LongCorpora(n) ==
  { [k \in 1..n |-> Message(unit[((k - 1) % Len(unit)) + 1][1], LongClock[k],
                              unit[((k - 1) % Len(unit)) + 1][2])] :
      unit \in UNION {[1..u -> Speakers \X LongVocabulary] : u \in 1..MaxUnit} }

\* corpora longer than those of InitGeneral: topics of more than 5 messages, more
\* than one timeline window
InitLong ==
  /\ \E n \in (MaxMsgs + 1)..MaxLong : conversations \in LongCorpora(n)
  /\ participants = << "Alice", "Bob" >>
  /\ hashseed = 0
  /\ blob_value = << 0, 0 >>
  /\ faults = 0

InitMalformed ==
  /\ conversations \in MalformedCorpora
  /\ participants = << "Alice", "Bob" >>
  /\ hashseed = 0
  /\ blob_value = << 0, 0 >>
  /\ faults = 0

Init ==
  /\ InitGeneral \/ InitIrregular \/ InitLong \/ InitExample \/ InitMalformed
  /\ Start

Next ==
  \/ ExtractTopicsIterate
  \/ ExtractTopicsReturn
  \/ ExtractSpeakerInsightsAdvance
  \/ ChatCompletionEnds
  \/ AnalyzeSentiment
  \/ AnalyzeDiarization
  \/ CompileInsights

Spec == Init /\ [][Next]_vars

\* The steps the program takes on its own once extract_topics has returned.  The end
\* of a chat completion call is the service's step: _generate_ai_insight sets no
\* timeout, and nothing else of the run is scheduled while the call is pending.
ProgramStep ==
  \/ ExtractSpeakerInsightsAdvance
  \/ AnalyzeSentiment
  \/ AnalyzeDiarization
  \/ CompileInsights

\* The runs on the worked example and on the empty corpus in which the program, from
\* insight generation on, keeps taking the step it can take.
InitFair == InitExample /\ Start

FairSpec == InitFair /\ [][Next]_vars /\ WF_vars(ProgramStep)

(***************************************************************************)
(* Properties                                                              *)
(***************************************************************************)

\* extract_topics has returned and the run is in a later stage
TopicsReturned == pc \notin {"extract_topics", "raised"}

\* C1: the buffers that extract_topics finalizes partition the corpus: while the loop
\* runs, the finalized buffers followed by the open buffer are the messages read so
\* far, in order; once extract_topics has returned, the finalized buffers laid end to
\* end are the corpus, there is one topic per buffer, each topic's message_count is
\* its buffer's length, no buffer is empty, and the counts sum to the corpus length.
C1_TopicsPartitionCorpus ==
  /\ pc = "extract_topics" =>
       Flatten(finalized) \o topic_buffer = SubSeq(conversations, 1, i)
  /\ TopicsReturned =>
       /\ Flatten(finalized) = conversations
       /\ Len(topics) = Len(finalized)
       /\ \A k \in 1..Len(topics) :
            topics[k].message_count = Len(finalized[k]) /\ Len(finalized[k]) > 0
       /\ SumSeq([k \in 1..Len(topics) |-> topics[k].message_count]) = Len(conversations)

C1_Witness ==
  /\ TopicsReturned
  /\ Len(topics) >= 2
  /\ \E k \in 1..Len(finalized) : Len(finalized[k]) >= 2

ExampleCorpora == {ExampleCorpus(clock) : clock \in Clocks}

\* C2: for the worked example, segmentation yields exactly 2 topics, the first of
\* category technical and the second of category business, the second topic opening
\* at message 3.
C2_ExampleTopics ==
  (TopicsReturned /\ conversations \in ExampleCorpora) =>
     /\ Len(topics) = 2
     /\ topics[1].category = "technical"
     /\ topics[2].category = "business"
     /\ Len(finalized[1]) = 2

\* C3: a run of extract_topics on the same corpus in another process (under any other
\* hash seed) yields the topics of this run: the same boundaries, titles and ids.
C3_SameTopicsInEveryProcess ==
  (pc = "extract_speaker_insights" /\ n_done = 0) =>
     \A seed \in HashSeeds : extract_topics(conversations, participants, seed).val = topics

\* C4: with an empty corpus the run raises nothing, and the report it returns has no
\* topics, no speaker insights, no diarization rows and an empty sentiment timeline,
\* overall sentiment neutral, total_topics 0, average_topic_duration 0 and no most
\* active speaker.
C4_EmptyCorpusReport ==
  Len(conversations) = 0 =>
     /\ pc # "raised"
     /\ pc = "done" =>
          /\ insights[1].topics_discussed = << >>
          /\ insights[1].speaker_insights = << >>
          /\ insights[1].diarization = << >>
          /\ insights[1].sentiment_analysis.sentiment_timeline = << >>
          /\ insights[1].sentiment_analysis.overall_sentiment = "neutral"
          /\ insights[1].summary_statistics.total_topics = 0
          /\ insights[1].summary_statistics.average_topic_duration.num = 0
          /\ insights[1].summary_statistics.most_active_speaker = << >>

C4_Witness ==
  /\ Len(conversations) = 0
  /\ pc = "done"
  /\ Len(participants) = 2
  /\ blob_value[1] > SentimentThreshold
  /\ faults > 0

\* C5: for every non-empty corpus and every roster, the speaking percentages of the
\* rows analyze_diarization emits sum to 100.
C5_PercentagesSumTo100 ==
  (pc \in {"compile", "done"} /\ Len(conversations) > 0) =>
     SumSeq([k \in 1..Len(diarization) |-> diarization[k].speaking_percentage.num])
       = 100 * Len(conversations)

\* C6: a failure of the sentiment scorer or of the text generation is never surfaced:
\* the run does not end with the capability's exception.
C6_CapabilityFailureNotSurfaced == ~(pc = "raised" /\ exception = "ScorerError")

\* the texts a chat completion can contribute: its content, stripped, when not empty
GeneratedTexts ==
  { Strip(r.choices[1]) : r \in {x \in Responses : Len(x.choices) > 0} } \ {""}

\* C7: the insight text of every emitted record is the generated text or, when the
\* generation failed or answered nothing, the heuristic text of its pair; it is never
\* empty.
C7_NoEmptyInsight ==
  \A k \in 1..Len(speaker_insights) :
     LET pair == QualifyingPairs(topics, conversations).val[k]
     IN  speaker_insights[k].insight \in
           GeneratedTexts
           \cup {_generate_heuristic_insight(pair.speaker, pair.messages, pair.topic)}

\* C8: under fair scheduling, a pending text-generation call does not stall insight
\* generation: whenever a call is pending, the run eventually gets past it.
C8_PendingCallDoesNotStall == (pc = "chat_completion") ~> (pc # "chat_completion")

\* C9: no ratio over a zero denominator raises: the run never ends with a division by
\* zero, whatever the corpus and the roster.
C9_NoZeroDivision == ~(pc = "raised" /\ exception = "ZeroDivisionError")

\* C10: a message that lacks a required field does not abort the run.
C10_MalformedMessageDoesNotAbort ==
  (\E k \in 1..Len(conversations) : DOMAIN conversations[k] # Fields) => pc # "raised"

\* the report's sentiment entries that carry a polarity next to their label: the
\* per-speaker, the per-topic and the timeline entries
LabelledPolarities ==
  LET analysis == insights[1].sentiment_analysis
  IN  { << analysis.speaker_sentiments[speaker].overall_sentiment,
           analysis.speaker_sentiments[speaker].polarity >> :
          speaker \in DOMAIN analysis.speaker_sentiments }
      \cup { << analysis.topic_sentiments[id].sentiment,
                analysis.topic_sentiments[id].polarity >> :
               id \in DOMAIN analysis.topic_sentiments }
      \cup { << analysis.sentiment_timeline[k].sentiment,
                analysis.sentiment_timeline[k].polarity >> :
               k \in 1..Len(analysis.sentiment_timeline) }

\* C11: in every report, an entry is labelled positive exactly when its polarity is
\* strictly above 0.15, negative exactly when it is strictly below -0.15, and neutral
\* otherwise (0.15 and -0.15 included); the overall label follows the same rule on the
\* overall polarity, whose absolute value is the report's confidence.
C11_StrictSentimentBoundaries ==
  pc = "done" =>
     /\ \A entry \in LabelledPolarities :
          /\ entry[1] = "positive" <=> entry[2] > SentimentThreshold
          /\ entry[1] = "negative" <=> entry[2] < -SentimentThreshold
          /\ entry[1] = "neutral" <=> Abs(entry[2]) <= SentimentThreshold
     /\ insights[1].sentiment_analysis.overall_sentiment = "neutral"
          <=> insights[1].sentiment_analysis.confidence <= SentimentThreshold

\* a report on a scorer that answers exactly 0.15: every kind of entry is there
C11_Witness ==
  /\ pc = "done"
  /\ insights[1].sentiment_analysis.confidence = SentimentThreshold
  /\ insights[1].sentiment_analysis.overall_sentiment = "neutral"
  /\ \E entry \in LabelledPolarities : entry = << "neutral", SentimentThreshold >>
  /\ Len(insights[1].sentiment_analysis.sentiment_timeline) > 0
  /\ DOMAIN insights[1].sentiment_analysis.topic_sentiments # {}
  /\ DOMAIN insights[1].sentiment_analysis.speaker_sentiments # {}

\* C12: for every message the loop of extract_topics has classified, every emitted
\* label has a score above 0 and at most 1, and exactly one of the labels personal and
\* professional is emitted.
C12_ClassifierScoresPositive ==
  \A k \in 1..i :
     LET scores == classified[conversations[k].message]
     IN  /\ \A e \in 1..Len(scores) : scores[e].score > 0 /\ scores[e].score <= ScoreScale
         /\ Cardinality({e \in 1..Len(scores) :
                           scores[e].label \in {"personal", "professional"}}) = 1

\* C13: the context score of every topic extract_topics has built lies in [0,1],
\* whatever the corpus and the roster.
C13_ContextScoreNormalized ==
  \A k \in 1..Len(topics) :
     /\ topics[k].context_score.num >= 0
     /\ topics[k].context_score.num <= topics[k].context_score.den

\* C14: the speakers field of every topic is the set of the speakers of the messages
\* of the buffer the topic was finalized from.
C14_SpeakersAreBufferSpeakers ==
  \A k \in 1..Len(topics) :
     topics[k].speakers = {finalized[k][j].speaker : j \in 1..Len(finalized[k])}

C16_InsightKeysDistinct ==
  \A j, k \in 1..Len(speaker_insights) :
     j # k => << speaker_insights[j].speaker, speaker_insights[j].topic_id >>
              # << speaker_insights[k].speaker, speaker_insights[k].topic_id >>

\* the rule of the claim: on some label of the incoming scores or of the mean of the
\* last 3 buffered messages' scores, the two values differ by more than 0.3, a label
\* missing on one side counting as 0
VectorsDiffer(buffer, text) ==
  LET n == Len(buffer)
      current == classified[text]
      recent == [k \in 1..RecentWindow |-> classified[buffer[n - RecentWindow + k].message]]
      labels == Labels(current) \cup UNION {Labels(recent[k]) : k \in 1..RecentWindow}
      Mean(label) == [sum |-> SumSeq([k \in 1..RecentWindow |-> ScoreOrZero(recent[k], label)]),
                      len |-> RecentWindow]
  IN  \E label \in labels : ScoreChanged(ScoreOrZero(current, label), Mean(label))

\* C17: when the loop of extract_topics reads a message without a transition phrase
\* into a non-empty buffer, it starts a new buffer exactly when the buffer holds at
\* least 3 messages and the score vectors differ by the rule above; with fewer than 3
\* buffered messages it appends.
C17_ScoreRuleTriggers ==
  [][ (pc = "extract_topics" /\ i' = i + 1 /\ Len(topic_buffer) > 0
       /\ ~has_transition_phrase[conversations[i + 1].message])
      => ((topic_buffer' = << conversations[i + 1] >>)
            <=> (Len(topic_buffer) >= RecentWindow
                 /\ VectorsDiffer(topic_buffer, conversations[i + 1].message))) ]_vars

\* the category the claim gives a topic seeded by a message text: general when the
\* text matches no keyword, technical when its highest-scoring label is a label of the
\* technical taxonomy, business otherwise
ExpectedCategory(text) ==
  LET scores == classified[text]
      technical_labels == {"tech_" \o technical_keywords[k][1] : k \in 1..Len(technical_keywords)}
  IN  IF \A k \in 1..Len(scores) : scores[k].score = 0 THEN "general"
      ELSE IF PrimaryTopic(scores) \in technical_labels THEN "technical"
      ELSE "business"

\* C18: the category of the topic in progress is the one its seeding message, the
\* first of the buffer, gives it.
C18_CategoryOfSeedingMessage ==
  (Len(current_topic) > 0 /\ Len(topic_buffer) > 0) =>
     current_topic[1].category = ExpectedCategory(topic_buffer[1].message)

\* the last topic built is the buffer's: its count, and the times of its first and
\* last message
ClosedFrom(topic, buffer) ==
  /\ topic.message_count = Len(buffer)
  /\ topic.start_time = buffer[1].timestamp
  /\ topic.end_time = buffer[Len(buffer)].timestamp

\* C19: when the loop of extract_topics reads a message that triggers a transition,
\* the buffer of the topic in progress, as it was before the message, is finalized
\* into one new topic (nothing is finalized when no buffer is open) and the new buffer
\* holds the triggering message alone; when extract_topics returns at the end of the
\* corpus, the open non-empty buffer is finalized into one last topic.
C19_FinalizeThenStart ==
  [][ /\ (pc = "extract_topics" /\ i' = i + 1
          /\ _is_topic_transition(topic_buffer, conversations[i + 1],
                                  classified[conversations[i + 1].message]))
         => /\ topic_buffer' = << conversations[i + 1] >>
            /\ IF Len(topic_buffer) > 0
               THEN /\ finalized' = Append(finalized, topic_buffer)
                    /\ Len(topics') = Len(topics) + 1
                    /\ SubSeq(topics', 1, Len(topics)) = topics
                    /\ ClosedFrom(topics'[Len(topics')], topic_buffer)
               ELSE finalized' = finalized /\ topics' = topics
      /\ (pc = "extract_topics" /\ pc' = "extract_speaker_insights")
         => IF Len(topic_buffer) > 0
            THEN /\ finalized' = Append(finalized, topic_buffer)
                 /\ Len(topics') = Len(topics) + 1
                 /\ SubSeq(topics', 1, Len(topics)) = topics
                 /\ ClosedFrom(topics'[Len(topics')], topic_buffer)
            ELSE finalized' = finalized /\ topics' = topics ]_vars

\* a transition has just closed a topic of two messages or more, and the triggering
\* message is alone in the new buffer
C19_Witness ==
  /\ pc = "extract_topics"
  /\ i >= 3
  /\ topic_buffer = << conversations[i] >>
  /\ Len(finalized) >= 1
  /\ Len(finalized[Len(finalized)]) >= 2
  /\ Len(topics) = Len(finalized)

\* the largest score a label has among the messages of a buffer that carry it
BufferMax(buffer, label) ==
  SetMax({ScoreOf(classified[buffer[k].message], label) :
            k \in {j \in 1..Len(buffer) : label \in Labels(classified[buffer[j].message])}})

\* C20: the accumulator of the topic in progress holds exactly the labels of the
\* messages of its buffer, each once and each with the maximum of its scores over the
\* buffer; so appending a message lowers no accumulated score, and the accumulator
\* handed to _finalize_topic holds the per-label maxima of the finalized buffer.
C20_AccumulatorIsPerLabelMax ==
  (Len(current_topic) > 0 /\ Len(topic_buffer) > 0) =>
     LET acc == current_topic[1].topics_discussed
     IN  /\ Labels(acc) = UNION {Labels(classified[topic_buffer[k].message]) :
                                   k \in 1..Len(topic_buffer)}
         /\ Cardinality(Labels(acc)) = Len(acc)
         /\ \A k \in 1..Len(acc) : acc[k].score = BufferMax(topic_buffer, acc[k].label)

\* a buffer whose last message brought a new label and scored lower than the
\* accumulator on a label it shares with it
C20_Witness ==
  /\ pc = "extract_topics"
  /\ Len(current_topic) > 0
  /\ Len(topic_buffer) >= 2
  /\ LET acc == current_topic[1].topics_discussed
         last == classified[topic_buffer[Len(topic_buffer)].message]
         first == classified[topic_buffer[1].message]
     IN  /\ \E k \in 1..Len(last) : last[k].label \notin Labels(first)
         /\ \E k \in 1..Len(last) : last[k].score < ScoreOf(acc, last[k].label)


\* the speakers of a buffer that have at least MinContribution messages in it, in
\* order of first appearance
BufferContributors(buffer) ==
  SelectSeq(FirstAppearance(buffer),
            LAMBDA speaker : Len(MessagesOf(speaker, buffer)) >= MinContribution)

\* the run has left extract_speaker_insights without raising
InsightsReturned == pc \in {"analyze_sentiment", "analyze_diarization", "compile", "done"}

\* C21: once extract_speaker_insights has returned, its records are, topic by topic,
\* one for each speaker with at least 2 messages in the buffer the segmenter
\* finalized into that topic, and no others: a speaker with fewer messages in the
\* buffer has none, and messages of other buffers do not count.
C21_InsightsForBufferContributors ==
  InsightsReturned =>
    [k \in 1..Len(speaker_insights) |->
        << speaker_insights[k].speaker, speaker_insights[k].topic_id >>]
    = Flatten([k \in 1..Len(finalized) |->
                 [j \in 1..Len(BufferContributors(finalized[k])) |->
                     << BufferContributors(finalized[k])[j], topics[k].id >>]])


\* the (topic, speaker, messages) items extract_speaker_insights has generated a
\* record for, each with its record
InsightsMade ==
  [k \in 1..Len(speaker_insights) |->
      [pair |-> QualifyingPairs(topics, conversations).val[k],
       record |-> speaker_insights[k]]]

\* the level the thresholds give to the share count / total
LevelOfShare(count, total) ==
  IF 10 * count > DominantTenths * total THEN "dominant"
  ELSE IF 10 * count > HighTenths * total THEN "high"
  ELSE IF 10 * count > MediumTenths * total THEN "medium"
  ELSE "low"

\* C22: every insight record's engagement level is the level of the share of the
\* speaker's messages in the topic's message count, under the strict thresholds 0.6,
\* 0.3 and 0.1, and that share lies between 0 and 1: the speaker's messages number
\* at most the topic's message count.
C22_EngagementFromShare ==
  \A k \in 1..Len(speaker_insights) :
     LET made == InsightsMade[k]
         count == Len(made.pair.messages)
         total == made.pair.topic.message_count
     IN  /\ total > 0
         /\ 0 <= count /\ count <= total
         /\ made.record.engagement_level = LevelOfShare(count, total)


\* the three texts of the heuristic fallback
DetailedText(speaker, title) ==
  speaker \o " provided detailed explanations and deep insights on " \o title
EngagedText(speaker, title) ==
  speaker \o " was highly engaged in the discussion about " \o title
ContributedText(speaker, title) ==
  speaker \o " contributed to the conversation about " \o title

\* the sum of the lengths of the messages' texts
TotalLength(messages) == SumSeq([k \in 1..Len(messages) |-> Len(messages[k].message)])

\* C23: an insight text that is not the service's answer (the generated text, or the
\* empty text of an answer without content) is the heuristic text chosen by priority
\* from the speaker's messages: the detailed-explanation text when their average
\* length exceeds 100 characters, otherwise the highly-engaged text when they number
\* more than 5, otherwise the contributed-to text; it names the topic title and is
\* determined by the speaker, the messages and the title.
C23_HeuristicPriority ==
  \A k \in 1..Len(speaker_insights) :
     LET made == InsightsMade[k]
         text == made.record.insight
         speaker == made.pair.speaker
         messages == made.pair.messages
         title == made.pair.topic.title
         detailed == TotalLength(messages) > 100 * Len(messages)
         engaged == Len(messages) > 5
     IN  text \notin GeneratedTexts \cup {""} =>
           /\ detailed => text = DetailedText(speaker, title)
           /\ (~detailed /\ engaged) => text = EngagedText(speaker, title)
           /\ (~detailed /\ ~engaged) => text = ContributedText(speaker, title)
           /\ Contains(text, title)

\* a speaker with more than 5 messages averaging more than 100 characters got the
\* detailed-explanation text, and in another topic of the same run a speaker got the
\* contributed-to text
C23_Witness ==
  /\ \E k \in 1..Len(speaker_insights) :
        /\ Len(InsightsMade[k].pair.messages) > 5
        /\ TotalLength(InsightsMade[k].pair.messages) > 100 * Len(InsightsMade[k].pair.messages)
        /\ speaker_insights[k].insight
             = DetailedText(speaker_insights[k].speaker, InsightsMade[k].pair.topic.title)
  /\ \E k \in 1..Len(speaker_insights) :
        speaker_insights[k].insight
          = ContributedText(speaker_insights[k].speaker, InsightsMade[k].pair.topic.title)


\* list holds the excerpts of the first messages of buffer that satisfy flag, at
\* most cap of them, in the order of the buffer
FirstExcerpts(list, buffer, flag, cap) ==
  LET matching == {p \in 1..Len(buffer) : flag[buffer[p].message]}
      Rank(p) == Cardinality({q \in matching : q <= p})
  IN  /\ Len(list) = Min(cap, Cardinality(matching))
      /\ \A j \in 1..Len(list) :
            \E p \in matching :
               /\ Rank(p) = j
               /\ Len(list[j]) = Min(ExcerptLen, Len(buffer[p].message))
               /\ list[j] = SubSeq(buffer[p].message, 1, Len(list[j]))

\* C24: every emitted topic's key points, decisions and action items are the excerpts
\* of the first matching messages of its buffer in encounter order, at most 5, 3 and
\* 5 of them, each the message text cut to at most 200 characters.
C24_KeyContentCapped ==
  Len(topics) = Len(finalized) =>
    \A k \in 1..Len(topics) :
       /\ FirstExcerpts(topics[k].key_points, finalized[k], is_key_point, 5)
       /\ FirstExcerpts(topics[k].decisions, finalized[k], is_decision, 3)
       /\ FirstExcerpts(topics[k].action_items, finalized[k], is_action_item, 5)

\* a topic with more matching messages than each cap, whose decisions hold two
\* different texts, one of them cut and present in all three lists, and whose fourth
\* matching decision is a text other than the third
C24_Witness ==
  /\ Len(topics) = Len(finalized)
  /\ \E k \in 1..Len(topics) :
        LET buffer == finalized[k]
            decided == SelectSeq(buffer, LAMBDA msg : is_decision[msg.message])
        IN  /\ Len(SelectSeq(buffer, LAMBDA msg : is_key_point[msg.message])) > 5
            /\ Len(SelectSeq(buffer, LAMBDA msg : is_action_item[msg.message])) > 5
            /\ Len(decided) > 3
            /\ decided[4].message # decided[3].message
            /\ Len(topics[k].key_points) = 5
            /\ Len(topics[k].decisions) = 3
            /\ \E j \in 1..3 :
                  /\ Len(topics[k].decisions[j]) = ExcerptLen
                  /\ topics[k].decisions[j] = topics[k].key_points[1]
                  /\ topics[k].decisions[j] = topics[k].action_items[1]
                  /\ topics[k].decisions[j] # LongStatement
            /\ \E j \in 1..3 : topics[k].decisions[j] = "Agreed, final."


\* C25: the sentiment timeline of a corpus of n messages has ceil(n/10) records;
\* record k (from 0) covers the message indexes 10k to min(10k+9, n-1), so that every
\* index from 0 to n-1 lies in exactly one record's range, and carries the timestamp
\* of the first message of its window.
C25_TimelinePartitionsCorpus ==
  Len(sentiment_analysis) > 0 =>
    LET timeline == sentiment_analysis[1].sentiment_timeline
        n == Len(conversations)
    IN  /\ 10 * (Len(timeline) - 1) < n /\ n <= 10 * Len(timeline)
        /\ \A k \in 1..Len(timeline) :
              /\ timeline[k].start_message = 10 * (k - 1)
              /\ timeline[k].end_message = Min(10 * (k - 1) + 9, n - 1)
              /\ timeline[k].timestamp = conversations[10 * (k - 1) + 1].timestamp
        /\ \A index \in 0..(n - 1) :
              Cardinality({k \in 1..Len(timeline) :
                             /\ timeline[k].start_message <= index
                             /\ index <= timeline[k].end_message}) = 1

\* a corpus of more than 10 messages analyzed: a full window and a shorter last one
C25_Witness ==
  /\ Len(sentiment_analysis) > 0
  /\ Len(conversations) > 10
  /\ Len(sentiment_analysis[1].sentiment_timeline) = 2
  /\ sentiment_analysis[1].sentiment_timeline[2].end_message
       - sentiment_analysis[1].sentiment_timeline[2].start_message < 9
  /\ sentiment_analysis[1].sentiment_timeline[2].timestamp = conversations[11].timestamp


\* the positions of the corpus at which speaker speaks
PositionsOf(speaker) == {p \in 1..Len(conversations) : conversations[p].speaker = speaker}

\* the position of the speaker's own previous message before p, or 0
OwnPrevious(speaker, p) ==
  IF \E q \in PositionsOf(speaker) : q < p
  THEN SetMax({q \in PositionsOf(speaker) : q < p})
  ELSE 0

\* the positions at which speaker says fewer than 3 words right after a message of
\* their own with more than 10 words
Interruptions(speaker) ==
  {p \in PositionsOf(speaker) :
     /\ WordCount(conversations[p].message) < 3
     /\ OwnPrevious(speaker, p) > 0
     /\ WordCount(conversations[OwnPrevious(speaker, p)].message) > 10}

\* C26: in every diarization row, interruption_count is the number of the speaker's
\* messages of fewer than 3 words whose predecessor among the speaker's own messages
\* has more than 10 words, whatever other speakers said in between, and
\* statement_count + question_count is the number of the speaker's messages.
C26_InterruptionsWithinOwnMessages ==
  \A k \in 1..Len(diarization) :
     /\ diarization[k].interruption_count
          = Cardinality(Interruptions(diarization[k].speaker))
     /\ diarization[k].statement_count + diarization[k].question_count
          = Cardinality(PositionsOf(diarization[k].speaker))

\* a row that counts an interruption across another speaker's message, and a row
\* whose speaker has a short message, after one of their own, that is not counted
C26_Witness ==
  /\ \E k \in 1..Len(diarization) :
        LET speaker == diarization[k].speaker
        IN  /\ diarization[k].interruption_count > 0
            /\ \E p \in Interruptions(speaker) : OwnPrevious(speaker, p) < p - 1
  /\ \E k \in 1..Len(diarization) :
        LET speaker == diarization[k].speaker
        IN  \E p \in PositionsOf(speaker) \ Interruptions(speaker) :
               /\ WordCount(conversations[p].message) < 3
               /\ OwnPrevious(speaker, p) > 0

\* the number of messages of speaker in buffer
CountIn(speaker, buffer) == Cardinality({p \in 1..Len(buffer) : buffer[p].speaker = speaker})

\* breakdown is the participation breakdown of buffer: one share per speaker of the
\* buffer, equal to the speaker's count over the buffer's length, and the most active
\* speaker is the first speaker of the buffer to have the largest count
BreakdownOf(breakdown, buffer) ==
  LET speakers == {buffer[p].speaker : p \in 1..Len(buffer)}
      shares == breakdown.speaker_participation
      first(speaker) == SetMin({p \in 1..Len(buffer) : buffer[p].speaker = speaker})
  IN  /\ DOMAIN shares = speakers
      /\ \A speaker \in speakers :
            shares[speaker].num * Len(buffer) = CountIn(speaker, buffer) * shares[speaker].den
      /\ breakdown.most_active_speaker \in speakers
      /\ \A speaker \in speakers :
            \/ CountIn(speaker, buffer) < CountIn(breakdown.most_active_speaker, buffer)
            \/ /\ CountIn(speaker, buffer) = CountIn(breakdown.most_active_speaker, buffer)
               /\ first(breakdown.most_active_speaker) <= first(speaker)

\* C27: once analyze_sentiment has returned, the per-topic sentiment entry of every
\* topic embeds the participation breakdown of the messages of that topic: each
\* speaker's share is their message count in the topic over the topic's message
\* count (so the shares sum to 1), and the most active speaker has the largest count,
\* the first to appear when counts tie.
C27_TopicParticipation ==
  Len(sentiment_analysis) > 0 =>
    \A k \in 1..Len(topics) :
       LET entry == sentiment_analysis[1].topic_sentiments[topics[k].id]
       IN  /\ Len(entry.diarization) > 0
           /\ topics[k].message_count = Len(finalized[k])
           /\ BreakdownOf(entry.diarization[1], finalized[k])


\* C28: for every emitted topic, the messages that insight generation and sentiment
\* analysis select for it, those whose timestamp lies between its start_time and its
\* end_time, are the messages of the buffer the segmenter finalized into it, and
\* their number is its message_count.
C28_SelectionIsBuffer ==
  (TopicsReturned /\ \A p \in 1..Len(conversations) : Has(conversations[p], "timestamp")) =>
    \A k \in 1..Len(topics) :
       /\ TopicMessages(topics[k], conversations) = finalized[k]
       /\ Len(TopicMessages(topics[k], conversations)) = topics[k].message_count


\* C29: in a compiled report distinct topics have distinct ids, and the per-topic
\* sentiment map has one entry for each emitted topic: its size is total_topics.
C29_TopicIdsDistinct ==
  Len(sentiment_analysis) > 0 =>
    /\ \A j, k \in 1..Len(topics) : j # k => topics[j].id # topics[k].id
    /\ Cardinality(DOMAIN sentiment_analysis[1].topic_sentiments) = Len(topics)


\* C30: while extract_topics runs and has consumed at least one message, there is a
\* topic in progress and its buffer is not empty and starts with the message that
\* opened the topic; the topics emitted so far each count at least one message and,
\* with the one in progress, are no more than the messages consumed.  Once
\* extract_topics has returned, a non-empty corpus has at least one topic, the first
\* begins at the first message of the corpus, and the topics are no more than the
\* messages.
C30_ActiveTopicAfterFirstMessage ==
  /\ (pc = "extract_topics" /\ i >= 1) =>
        /\ Len(current_topic) = 1
        /\ Len(topic_buffer) >= 1
        /\ current_topic[1].start_time = topic_buffer[1].timestamp
        /\ current_topic[1].speakers = {topic_buffer[1].speaker}
        /\ current_topic[1].topics_discussed # << >>
        /\ Len(topics) + 1 <= i
  /\ pc # "raised" => \A k \in 1..Len(topics) : topics[k].message_count >= 1
  /\ TopicsReturned =>
        /\ Len(topics) <= Len(conversations)
        /\ Len(conversations) > 0 =>
              /\ Len(topics) >= 1
              /\ topics[1].start_time = conversations[1].timestamp
              /\ finalized[1][1] = conversations[1]

\* the loop after a transition: a topic has been emitted and the buffer of the next
\* one has grown past the message that opened it
C30_Witness ==
  /\ pc = "extract_topics"
  /\ i >= 3
  /\ Len(topics) >= 1
  /\ Len(topic_buffer) >= 2
  /\ Len(current_topic) = 1
  /\ current_topic[1].start_time = topic_buffer[1].timestamp
  /\ current_topic[1].start_time # conversations[1].timestamp

====
